---- MODULE Spec2Model ----
(***************************************************************************)
(* Model of main2.py: the batch job runner (Main.__init__), the extraction *)
(* router with its interactive session (Main.get_extractor) and the input  *)
(* collector (Main.build_jobs), followed by the __main__ block.            *)
(*                                                                         *)
(* A Python str is a sequence of one-character strings; Python's None is   *)
(* the value NoneVal, which is no such sequence.                           *)
(***************************************************************************)
EXTENDS Integers, Sequences, FiniteSets, TLC

VARIABLES args, args0, fs, pc, jobs, idx, item, stack, ext, exc, raising,
          error, log

vars == <<args, args0, fs, pc, jobs, idx, item, stack, ext, exc, raising,
          error, log>>

(* ------------------------------ bounds -------------------------------- *)

\* most raw entries of a run: -l/--link occurrences plus links-file lines
MaxItems == 2
\* most non-blank lines pasted at the interactive prompt
MaxPaste == 2

(* ------------------------------ strings ------------------------------- *)

NoneVal == <<"None">>

UpperChars == <<"A","B","C","D","E","F","G","H","I","J","K","L","M",
                "N","O","P","Q","R","S","T","U","V","W","X","Y","Z">>
LowerChars == <<"a","b","c","d","e","f","g","h","i","j","k","l","m",
                "n","o","p","q","r","s","t","u","v","w","x","y","z">>

\* str.lower() on one character
LowerChar(c) ==
  IF \E k \in DOMAIN UpperChars : UpperChars[k] = c
  THEN LowerChars[CHOOSE k \in DOMAIN UpperChars : UpperChars[k] = c]
  ELSE c

\* str.lower()
Lower(s) == [k \in 1..Len(s) |-> LowerChar(s[k])]

\* str.startswith(p)
StartsWith(s, p) == Len(s) >= Len(p) /\ SubSeq(s, 1, Len(p)) = p

\* sub in s
Contains(s, sub) ==
  \E k \in 0..(Len(s) - Len(sub)) : SubSeq(s, k + 1, k + Len(sub)) = sub

WhiteSpace == {" ", "\t", "\n", "\r"}

\* str.strip()
Strip(s) ==
  LET keep == {k \in 1..Len(s) : s[k] \notin WhiteSpace}
  IN IF keep = {} THEN <<>>
     ELSE SubSeq(s, CHOOSE k \in keep : \A m \in keep : k <= m,
                    CHOOSE k \in keep : \A m \in keep : k >= m)

DigitChars == <<"0","1","2","3","4","5","6","7","8","9">>

RECURSIVE Decimal(_)
\* str(n) for n >= 0
Decimal(n) ==
  IF n < 10 THEN <<DigitChars[n + 1]>>
  ELSE Decimal(n \div 10) \o <<DigitChars[(n % 10) + 1]>>

RECURSIVE ZeroFill(_, _)
ZeroFill(s, w) == IF Len(s) >= w THEN s ELSE ZeroFill(<<"0">> \o s, w)

\* the format spec {n:03d}
Fmt03d(n) == ZeroFill(Decimal(n), 3)

\* truth value of a str-or-None
Truthy(s) == s # NoneVal /\ s # <<>>

HttpPrefix  == <<"h","t","t","p",":","/","/">>
HttpsPrefix == <<"h","t","t","p","s",":","/","/">>

\* x.lower().startswith(("http://", "https://"))
IsUrl(s) == StartsWith(Lower(s), HttpPrefix) \/ StartsWith(Lower(s), HttpsPrefix)

HianimeMarker   == <<"h","i","a","n","i","m","e">>
InstagramMarker == <<"i","n","s","t","a","g","r","a","m",".","c","o","m">>

(* --------------------------- input universe --------------------------- *)

S_x       == <<"x">>
S_nar     == <<"n","a","r">>
S_http_a  == <<"h","t","t","p",":","/","/","a">>
\* upper-case scheme, both domain markers
S_both    == <<"H","t","t","p","s",":","/","/","h","i","a","n","i","m","e",
               "/","i","n","s","t","a","g","r","a","m",".","c","o","m">>
S_insta   == <<"h","t","t","p",":","/","/","i","n","s","t","a","g","r","a",
               "m",".","c","o","m">>
S_path    == <<"f">>

\* values of one -l/--link occurrence
LinkPool == {<<>>, S_http_a, S_both}
\* raw lines of the links file
LinePool == {<<" ">>, <<"#","c">>, <<" ">> \o S_nar \o <<" ">>, S_http_a}
\* raw lines typed at the prompt
PastePool == {<<>>, <<" ">> \o S_insta \o <<" ">>, S_nar}
\* values of -n/--filename
FilenamePool == {<<>>, S_x, S_http_a}

BSeq(S, n) == UNION {[1..k -> S] : k \in 0..n}

(* ------------------------------- state -------------------------------- *)

\* the Namespace parse_args returns
Namespace(filename, link, links_file, coe) ==
  [no_subtitles |-> FALSE, output_dir |-> "output", filename |-> filename,
   aria |-> FALSE, link |-> link, links_file |-> links_file,
   continue_on_error |-> coe, server |-> NoneVal]

NoExtractor == [kind |-> "none", args |-> Namespace(<<>>, <<>>, NoneVal, FALSE),
                name |-> NoneVal, subject |-> <<>>]

\* one output line or collaborator call, in program order
Event(ev, i, t, it, e, msg, d) ==
  [ev |-> ev, idx |-> i, total |-> t, item |-> it, ext |-> e, msg |-> msg,
   depth |-> d]

\* a line printed with no job data in it
Line(ev) == Event(ev, 0, 0, <<>>, NoExtractor, "", 0)

\* one activation of get_extractor: its args parameter and its locals
Frame(a) == [args |-> a, pc |-> "entry", items |-> <<>>, i |-> 0,
             ext |-> NoExtractor]

Init ==
  /\ \E fn \in FilenamePool, ln \in BSeq(LinkPool, MaxItems),
        lf \in {NoneVal, S_path}, coe \in BOOLEAN :
       args = Namespace(fn, ln, lf, coe)
  /\ args0 = args
  /\ \E ex \in BOOLEAN, ls \in BSeq(LinePool, MaxItems - Len(args.link)) :
       /\ (args.links_file = NoneVal => ~ex)
       /\ (~ex => ls = <<>>)
       /\ fs = [exists |-> ex, lines |-> ls]
  /\ pc = "build"
  /\ jobs = <<>>
  /\ idx = 0
  /\ item = <<>>
  /\ stack = <<>>
  /\ ext = NoExtractor
  /\ exc = "none"
  /\ raising = FALSE
  /\ error = "none"
  /\ log = <<>>

(* ----------------------------- build_jobs ----------------------------- *)

\* lines 121-125: the stripped lines that are neither blank nor comments
FileItems(lines) ==
  SelectSeq([k \in 1..Len(lines) |-> Strip(lines[k])],
            LAMBDA l : ~(l = <<>> \/ StartsWith(l, <<"#">>)))

\* mutant: seen.add(j) is left out, so seen stays empty and nothing is dropped
DedupeFrom_NeverSeen(js, k, seen, out) == out \o SubSeq(js, k, Len(js))

RECURSIVE DedupeFrom(_, _, _, _)
\* lines 132-138: the loop, from position k with the set seen and the list out
DedupeFrom(js, k, seen, out) ==
  IF k > Len(js) THEN out
  ELSE IF js[k] \notin seen
       THEN DedupeFrom(js, k + 1, seen \cup {js[k]}, Append(out, js[k]))
       ELSE DedupeFrom(js, k + 1, seen, out)

\* mutant: the de-duplication pass is left out
Dedupe_KeepAll(js) == js

Dedupe(js) == DedupeFrom(js, 1, {}, <<>>)

\* lines 113-129: the job list before de-duplication (the file exists)
Gather(a, f) ==
  LET fromLinks == IF a.link # <<>> THEN a.link ELSE <<>>
      fromFile  == IF Truthy(a.links_file) THEN FileItems(f.lines) ELSE <<>>
      merged    == fromLinks \o fromFile
  IN IF merged = <<>> /\ Truthy(a.filename) /\ a.link = <<>>
     THEN <<a.filename>>
     ELSE merged

\* mutant: the existence test is made only when no link entry was given
MissingFile_OnlyWithoutLinks(a, f) ==
  Truthy(a.links_file) /\ ~f.exists /\ a.link = <<>>

\* line 119: the links file was named and is not there
MissingFile(a, f) == Truthy(a.links_file) /\ ~f.exists

\* build_jobs: raised (FileNotFoundError) or the returned list
build_jobs(a, f) ==
  IF MissingFile(a, f) THEN [raised |-> TRUE, out |-> <<>>]
  ELSE [raised |-> FALSE, out |-> Dedupe(Gather(a, f))]

(* ----------------------------- job config ----------------------------- *)

\* mutant: the filename is suffixed without testing total > 1
Materialize_AlwaysSuffix(base, it, i, total) ==
  IF IsUrl(it)
  THEN [base EXCEPT
          !.link = it,
          !.filename = IF Truthy(base.filename)
                       THEN base.filename \o <<"_">> \o Fmt03d(i)
                       ELSE base.filename]
  ELSE [base EXCEPT !.link = NoneVal, !.filename = it]

\* lines 29-39: the per-job Namespace of the batch loop
Materialize(base, it, i, total) ==
  IF IsUrl(it)
  THEN [base EXCEPT
          !.link = it,
          !.filename = IF Truthy(base.filename) /\ total > 1
                       THEN base.filename \o <<"_">> \o Fmt03d(i)
                       ELSE base.filename]
  ELSE [base EXCEPT !.link = NoneVal, !.filename = it]

\* lines 78-85: the per-job Namespace of the nested loop
NestedMaterialize(base, it, i, n) ==
  IF IsUrl(it)
  THEN [base EXCEPT
          !.link = it,
          !.filename = IF Truthy(base.filename) /\ n > 1
                       THEN base.filename \o <<"_">> \o Fmt03d(i)
                       ELSE base.filename]
  ELSE [base EXCEPT !.link = NoneVal, !.filename = it]

Extractor(kind, a, name, subject) ==
  [kind |-> kind, args |-> a, name |-> name, subject |-> subject]

\* line 61: nothing to route on, so ask
Interactive(a) == ~Truthy(a.link) /\ ~Truthy(a.filename)

\* mutant: the instagram test comes before the hianime test
Route_InstagramFirst(a, subject) ==
  IF ~Truthy(a.link) /\ Truthy(a.filename)
  THEN Extractor("hianime", a, a.filename, subject)
  ELSE IF Truthy(a.link) /\ Contains(a.link, InstagramMarker)
  THEN Extractor("instagram", a, NoneVal, subject)
  ELSE IF Truthy(a.link) /\ Contains(a.link, HianimeMarker)
  THEN Extractor("hianime", a, NoneVal, subject)
  ELSE Extractor("general", a, NoneVal, subject)

\* lines 99-107: the ordered routing rules; subject is the raw item routed
Route(a, subject) ==
  IF ~Truthy(a.link) /\ Truthy(a.filename)
  THEN Extractor("hianime", a, a.filename, subject)
  ELSE IF Truthy(a.link) /\ Contains(a.link, HianimeMarker)
  THEN Extractor("hianime", a, NoneVal, subject)
  ELSE IF Truthy(a.link) /\ Contains(a.link, InstagramMarker)
  THEN Extractor("instagram", a, NoneVal, subject)
  ELSE Extractor("general", a, NoneVal, subject)

(* ------------------------------ actions ------------------------------- *)

Total == Len(jobs)
Top == stack[Len(stack)]
Caller == SubSeq(stack, 1, Len(stack) - 1)
SetTop(f) == [stack EXCEPT ![Len(stack)] = f]

\* mutant: the "if not jobs" notice and return are left out, so the loop
\* runs over the empty list and Main returns
BuildJobs_NoEmptyCheck ==
  /\ pc = "build"
  /\ LET r == build_jobs(args, fs) IN
       IF r.raised
       THEN /\ pc' = "exited"
            /\ error' = "FileNotFoundError"
            /\ UNCHANGED <<jobs, idx, item, log>>
       ELSE IF r.out = <<>>
       THEN /\ pc' = "returned"
            /\ UNCHANGED <<jobs, idx, item, error, log>>
       ELSE /\ jobs' = r.out
            /\ idx' = 1
            /\ item' = r.out[1]
            /\ pc' = "loop"
            /\ UNCHANGED <<log, error>>
  /\ UNCHANGED <<args, args0, fs, stack, ext, exc, raising>>

\* lines 18-25: collect the items; a missing links file raises out of Main,
\* an empty list prints the notice and returns
BuildJobs ==
  /\ pc = "build"
  /\ LET r == build_jobs(args, fs) IN
       IF r.raised
       THEN /\ pc' = "exited"
            /\ error' = "FileNotFoundError"
            /\ UNCHANGED <<jobs, idx, item, log>>
       ELSE IF r.out = <<>>
       THEN /\ log' = Append(log, Line("nothing"))
            /\ pc' = "returned"
            /\ UNCHANGED <<jobs, idx, item, error>>
       ELSE /\ jobs' = r.out
            /\ idx' = 1
            /\ item' = r.out[1]
            /\ pc' = "loop"
            /\ UNCHANGED <<log, error>>
  /\ UNCHANGED <<args, args0, fs, stack, ext, exc, raising>>

\* mutant: job_args is self.args itself, not a copy, so the job's link and
\* filename are assigned into the base configuration
StartJob_SharedNamespace ==
  /\ pc = "loop"
  /\ args' = Materialize(args, item, idx, Total)
  /\ stack' = <<Frame(args')>>
  /\ log' = Append(log, Event("processing", idx, Total, item, NoExtractor, "", 0))
  /\ pc' = "call"
  /\ UNCHANGED <<args0, fs, jobs, idx, item, ext, exc, raising, error>>

\* lines 26-46: derive the job's Namespace, announce the job, enter the try
\* block and call get_extractor
StartJob ==
  /\ pc = "loop"
  /\ stack' = <<Frame(Materialize(args, item, idx, Total))>>
  /\ log' = Append(log, Event("processing", idx, Total, item, NoExtractor, "", 0))
  /\ pc' = "call"
  /\ UNCHANGED <<args, args0, fs, jobs, idx, item, ext, exc, raising, error>>

\* get_extractor returns e: to line 47 of the batch loop, or to line 88 of
\* the calling activation
Return(e) ==
  IF Len(stack) = 1
  THEN /\ stack' = <<>>
       /\ ext' = e
       /\ pc' = "run"
  ELSE /\ stack' = [Caller EXCEPT ![Len(stack) - 1] =
                       [@ EXCEPT !.ext = e, !.pc = "nested_run"]]
       /\ UNCHANGED <<ext, pc>>

\* lines 61-64 and 99-107: no link and no filename opens the prompt, anything
\* else is routed
Enter ==
  /\ pc = "call"
  /\ stack # <<>>
  /\ Top.pc = "entry"
  /\ IF Interactive(Top.args)
     THEN /\ stack' = SetTop([Top EXCEPT !.pc = "input"])
          /\ log' = Append(log, Line("banner"))
          /\ UNCHANGED <<ext, pc>>
     ELSE /\ Return(Route(Top.args, IF Truthy(Top.args.link)
                                    THEN Top.args.link ELSE Top.args.filename))
          /\ UNCHANGED log
  /\ UNCHANGED <<args, args0, fs, jobs, idx, item, exc, raising, error>>

\* lines 67-71: one input() call; a blank line ends the loop
ReadLine ==
  /\ pc = "call"
  /\ stack # <<>>
  /\ Top.pc = "input"
  /\ \E raw \in PastePool :
       LET line == Strip(raw) IN
       /\ (Len(Top.items) >= MaxPaste => line = <<>>)
       /\ stack' = SetTop(IF line = <<>>
                          THEN [Top EXCEPT !.pc = "pasted"]
                          ELSE [Top EXCEPT !.items = Append(@, line)])
  /\ log' = Append(log, Line("prompt"))
  /\ UNCHANGED <<args, args0, fs, pc, jobs, idx, item, ext, exc, raising, error>>

\* lines 74-77: several items were pasted; self.args.link is reset and the
\* nested loop starts
NestedBatch ==
  /\ pc = "call"
  /\ stack # <<>>
  /\ Top.pc = "pasted"
  /\ Len(Top.items) > 1
  /\ args' = [args EXCEPT !.link = <<>>]
  /\ stack' = SetTop([Top EXCEPT !.pc = "nested_loop", !.i = 1])
  /\ UNCHANGED <<args0, fs, pc, jobs, idx, item, ext, exc, raising, error, log>>

\* mutant: the single pasted item is always taken as a HiAnime search term
SingleEntry_AlwaysSearch ==
  /\ pc = "call"
  /\ stack # <<>>
  /\ Top.pc = "pasted"
  /\ Len(Top.items) <= 1
  /\ LET ans == IF Top.items # <<>> THEN Top.items[1] ELSE <<>> IN
       Return(Extractor("hianime", Top.args, ans, ans))
  /\ UNCHANGED <<args, args0, fs, jobs, idx, item, exc, raising, error, log>>

\* lines 92-107: at most one item was pasted; a URL becomes the job's link
\* and is routed, anything else is a HiAnime search
SingleEntry ==
  /\ pc = "call"
  /\ stack # <<>>
  /\ Top.pc = "pasted"
  /\ Len(Top.items) <= 1
  /\ LET ans == IF Top.items # <<>> THEN Top.items[1] ELSE <<>> IN
       IF IsUrl(ans)
       THEN Return(Route([Top.args EXCEPT !.link = ans], ans))
       ELSE Return(Extractor("hianime", Top.args, ans, ans))
  /\ UNCHANGED <<args, args0, fs, jobs, idx, item, exc, raising, error, log>>

\* mutant: the nested loop's job_args is self.args itself, not a copy
NestedNext_SharedNamespace ==
  /\ pc = "call"
  /\ stack # <<>>
  /\ Top.pc = "nested_loop"
  /\ IF Top.i <= Len(Top.items)
     THEN /\ args' = NestedMaterialize(args, Top.items[Top.i], Top.i,
                                       Len(Top.items))
          /\ stack' = Append(SetTop([Top EXCEPT !.pc = "nested_wait"]),
                             Frame(args'))
          /\ UNCHANGED <<ext, pc>>
     ELSE /\ Return(Extractor("general", Top.args, NoneVal, item))
          /\ UNCHANGED args
  /\ UNCHANGED <<args0, fs, jobs, idx, item, exc, raising, error, log>>

\* lines 77-87 and 89: the next pasted item gets its Namespace and is routed
\* by a new activation; after the last one GeneralExtractor(args) is returned
NestedNext ==
  /\ pc = "call"
  /\ stack # <<>>
  /\ Top.pc = "nested_loop"
  /\ IF Top.i <= Len(Top.items)
     THEN /\ stack' = Append(SetTop([Top EXCEPT !.pc = "nested_wait"]),
                             Frame(NestedMaterialize(args, Top.items[Top.i],
                                                     Top.i, Len(Top.items))))
          /\ UNCHANGED <<ext, pc>>
     ELSE Return(Extractor("general", Top.args, NoneVal, item))
  /\ UNCHANGED <<args, args0, fs, jobs, idx, item, exc, raising, error, log>>

\* line 88: run() of a pasted item's extractor; an error leaves every
\* activation of get_extractor and arrives at line 48
NestedRun ==
  /\ pc = "call"
  /\ stack # <<>>
  /\ Top.pc = "nested_run"
  /\ \E out \in {"ok", "boom"} :
       /\ log' = Append(log, Event("run", Top.i, Len(Top.items),
                                   Top.items[Top.i], Top.ext, out, Len(stack)))
       /\ IF out = "ok"
          THEN /\ stack' = SetTop([Top EXCEPT !.pc = "nested_loop", !.i = @ + 1])
               /\ UNCHANGED <<pc, exc>>
          ELSE /\ stack' = <<>>
               /\ exc' = out
               /\ pc' = "except"
  /\ UNCHANGED <<args, args0, fs, jobs, idx, item, ext, raising, error>>

\* line 47: run() of the job's extractor
Run ==
  /\ pc = "run"
  /\ \E out \in {"ok", "boom"} :
       /\ log' = Append(log, Event("run", idx, Total, item, ext, out, 0))
       /\ IF out = "ok"
          THEN pc' = "finally" /\ UNCHANGED exc
          ELSE pc' = "except" /\ exc' = out
  /\ UNCHANGED <<args, args0, fs, jobs, idx, item, stack, ext, raising, error>>

\* mutant: the handler never re-raises
Except_NeverReraise ==
  /\ pc = "except"
  /\ log' = Append(log, Event("failed", idx, Total, item, NoExtractor, exc, 0))
  /\ raising' = FALSE
  /\ pc' = "finally"
  /\ UNCHANGED <<args, args0, fs, jobs, idx, item, stack, ext, exc, error>>

\* mutant: the handler re-raises without looking at continue_on_error
Except_AlwaysReraise ==
  /\ pc = "except"
  /\ log' = Append(log, Event("failed", idx, Total, item, NoExtractor, exc, 0))
  /\ raising' = TRUE
  /\ pc' = "finally"
  /\ UNCHANGED <<args, args0, fs, jobs, idx, item, stack, ext, exc, error>>

\* lines 48-51: report the failure, then re-raise unless continue_on_error
Except ==
  /\ pc = "except"
  /\ log' = Append(log, Event("failed", idx, Total, item, NoExtractor, exc, 0))
  /\ raising' = ~args.continue_on_error
  /\ pc' = "finally"
  /\ UNCHANGED <<args, args0, fs, jobs, idx, item, stack, ext, exc, error>>

\* mutant: the elapsed-time report follows the try statement instead of
\* sitting in its finally clause, so a re-raised error skips it
Finally_NoDoneOnRaise ==
  /\ pc = "finally"
  /\ IF raising
     THEN /\ pc' = "exited"
          /\ error' = exc
          /\ UNCHANGED <<idx, item, exc, log>>
     ELSE /\ log' = Append(log, Event("done", idx, Total, item, NoExtractor, "", 0))
          /\ exc' = "none"
          /\ UNCHANGED error
          /\ IF idx < Total
             THEN /\ idx' = idx + 1
                  /\ item' = jobs[idx + 1]
                  /\ pc' = "loop"
             ELSE /\ pc' = "returned"
                  /\ UNCHANGED <<idx, item>>
  /\ UNCHANGED <<args, args0, fs, jobs, stack, ext, raising>>

\* lines 52-57 and 25: report the job's elapsed time; then the error leaves
\* Main, or the loop goes on, or Main returns
Finally ==
  /\ pc = "finally"
  /\ log' = Append(log, Event("done", idx, Total, item, NoExtractor, "", 0))
  /\ IF raising
     THEN /\ pc' = "exited"
          /\ error' = exc
          /\ UNCHANGED <<idx, item, exc>>
     ELSE /\ exc' = "none"
          /\ UNCHANGED error
          /\ IF idx < Total
             THEN /\ idx' = idx + 1
                  /\ item' = jobs[idx + 1]
                  /\ pc' = "loop"
             ELSE /\ pc' = "returned"
                  /\ UNCHANGED <<idx, item>>
  /\ UNCHANGED <<args, args0, fs, jobs, stack, ext, raising>>

\* lines 205-206: Main() returned; print the total elapsed time
Took ==
  /\ pc = "returned"
  /\ log' = Append(log, Line("took"))
  /\ pc' = "exited"
  /\ UNCHANGED <<args, args0, fs, jobs, idx, item, stack, ext, exc, raising, error>>

Next ==
  \/ BuildJobs
  \/ StartJob
  \/ Enter
  \/ ReadLine
  \/ NestedBatch
  \/ SingleEntry
  \/ NestedNext
  \/ NestedRun
  \/ Run
  \/ Except
  \/ Finally
  \/ Took

Spec == Init /\ [][Next]_vars

TypeOK ==
  /\ pc \in {"build", "loop", "call", "run", "except", "finally", "returned",
             "exited"}
  /\ Len(stack) <= 2

(* ------------------------------ claims -------------------------------- *)

Pos == 1..Len(log)
Range(q) == {q[k] : k \in DOMAIN q}
Positions(ev) == {p \in Pos : log[p].ev = ev}
Failures == {p \in Positions("run") : log[p].msg # "ok"}
\* the "[idx/total] Processing" lines, in print order
Announced == SelectSeq(log, LAMBDA e : e.ev = "processing")
TookPrinted == Positions("took") # {}

\* C1: with continue-on-error false, after the first failing strategy run
\* nothing more is announced, prompted for or run, no job is materialized or
\* pending any more, the loop never advances, and the run can only end with
\* the error propagated out of Main (Aborted), never by returning.
C1_AbortsOnFirstFailure ==
  (~args.continue_on_error /\ Failures # {}) =>
    /\ Cardinality(Failures) = 1
    /\ \A p \in Failures : \A q \in Pos :
         q > p => log[q].ev \in {"failed", "done"}
    /\ stack = <<>>
    /\ pc \in {"except", "finally", "exited"}
    /\ Cardinality(Positions("processing")) = idx
    /\ (pc = "exited" => error = "boom" /\ raising /\ ~TookPrinted)

\* C1 witness: job 1 of several failed without continue-on-error and the run
\* ended with the error, job 2 never announced.
C1_Witness ==
  /\ ~args.continue_on_error
  /\ pc = "exited"
  /\ error = "boom"
  /\ Total > 1
  /\ idx = 1
  /\ \E p \in Failures : log[p].depth = 0

\* C2: with continue-on-error true and a non-empty job list, the jobs
\* announced so far are exactly jobs 1, 2, ... of the collected list in its
\* order, one announcement each; no error is ever re-raised or propagated; and
\* the run ends only after all jobs were announced, by Main returning.
C2_ContinuesThroughAllJobs ==
  (args.continue_on_error /\ jobs # <<>>) =>
    /\ jobs = build_jobs(args0, fs).out
    /\ Len(Announced) = (IF pc = "loop" THEN idx - 1 ELSE idx)
    /\ \A k \in 1..Len(Announced) :
         /\ Announced[k].idx = k
         /\ Announced[k].total = Total
         /\ Announced[k].item = jobs[k]
    /\ ~raising
    /\ error = "none"
    /\ (pc \in {"returned", "exited"} => Len(Announced) = Total)
    /\ (pc = "exited" => TookPrinted)

\* C2 witness: with continue-on-error, job 1 of several failed and the batch
\* still ran to completion.
C2_Witness ==
  /\ args.continue_on_error
  /\ pc = "exited"
  /\ Total > 1
  /\ \E p \in Failures : log[p].depth = 0 /\ log[p].idx = 1
  /\ \E p \in Positions("failed") : log[p].idx = 1

\* C3: whenever the process has ended after the job list was collected
\* (batch completed, nothing to do, or aborted by a failed job), the total
\* elapsed time has been reported.
C3_TotalTimeAlwaysReported ==
  (pc = "exited" /\ error # "FileNotFoundError") => TookPrinted

\* C4: when the collector returned the empty list, the only output is the
\* "nothing to do" notice (then the total time), no extractor is routed or
\* run, nothing is prompted for, no error is raised, and Main returns.
C4_EmptyInputIsNoOp ==
  (pc # "build" /\ error # "FileNotFoundError" /\ jobs = <<>>) =>
    /\ log \in {<<Line("nothing")>>, <<Line("nothing"), Line("took")>>}
    /\ pc \in {"returned", "exited"}
    /\ stack = <<>> /\ ext = NoExtractor
    /\ error = "none" /\ ~raising /\ exc = "none"

\* C4 witness: no links, no links file, empty filename, and the run is over.
C4_Witness ==
  /\ args0.link = <<>> /\ args0.links_file = NoneVal /\ args0.filename = <<>>
  /\ pc = "exited"
  /\ log[1].ev = "nothing"

\* the runs of extractors that were given a link (URL jobs)
UrlRuns == {p \in Positions("run") : Truthy(log[p].ext.args.link)}

\* C5: in a run with a non-empty base filename and more than one item
\* batched (by the batch loop or pasted at the prompt), no two URL jobs
\* handed to an extractor carry the same filename, the URL jobs of pasted
\* items included.
C5_FilenamesUnique ==
  (/\ Truthy(args0.filename)
   /\ (Total > 1 \/ \E p \in Positions("run") : log[p].depth > 0)) =>
    \A p, q \in UrlRuns :
      p # q => log[p].ext.args.filename # log[q].ext.args.filename

\* the scheme test of the reference, letter by letter in either case:
\* "http" and then "://" or "s://"
RefIsUrl(s) ==
  /\ Len(s) >= 7
  /\ s[1] \in {"h", "H"}
  /\ s[2] \in {"t", "T"}
  /\ s[3] \in {"t", "T"}
  /\ s[4] \in {"p", "P"}
  /\ \/ s[5] = ":" /\ s[6] = "/" /\ s[7] = "/"
     \/ Len(s) >= 8 /\ s[5] \in {"s", "S"} /\ s[6] = ":" /\ s[7] = "/" /\ s[8] = "/"

\* the three-digit suffix of the reference, for an index below 1000
RefPad3(n) ==
  <<DigitChars[((n \div 100) % 10) + 1], DigitChars[((n \div 10) % 10) + 1],
    DigitChars[(n % 10) + 1]>>

\* C6: the Namespace the batch loop hands to get_extractor for item idx of
\* total is the reference one: a URL item becomes the link and the filename
\* is the base filename, suffixed "_" and the 3-digit index when the base
\* filename is non-empty and total > 1; any other item gives link None and
\* becomes the filename; every other field is the base configuration's.
C6_MaterializeIsReference ==
  (pc = "call" /\ Len(stack) = 1 /\ stack[1].pc = "entry") =>
    LET j == stack[1].args IN
    /\ RefIsUrl(item) =>
         /\ j.link = item
         /\ j.filename = (IF args0.filename # <<>> /\ Total > 1
                          THEN args0.filename \o <<"_">> \o RefPad3(idx)
                          ELSE args0.filename)
    /\ ~RefIsUrl(item) => j.link = NoneVal /\ j.filename = item
    /\ \A f \in DOMAIN args0 \ {"link", "filename"} : j[f] = args0[f]

\* C6 witness: item 2 of a batch under base filename "x" has an upper-case
\* scheme and was materialized with filename "x_002".
C6_Witness ==
  /\ pc = "call" /\ Len(stack) = 1 /\ stack[1].pc = "entry"
  /\ args0.filename = S_x
  /\ idx = 2
  /\ item = S_both
  /\ stack[1].args.filename = <<"x", "_", "0", "0", "2">>

\* C7: every extractor that was run on a Namespace with a link or a filename
\* is the one the ordered rules select: no link -> hianime; link with the
\* hianime marker -> hianime; else link with the instagram marker ->
\* instagram; else general.
C7_RouterFirstMatch ==
  \A p \in Positions("run") :
    LET a == log[p].ext.args IN
    (Truthy(a.link) \/ Truthy(a.filename)) =>
      /\ log[p].ext.kind \in {"hianime", "instagram", "general"}
      /\ log[p].ext.kind =
           (IF ~Truthy(a.link) THEN "hianime"
            ELSE IF Contains(a.link, HianimeMarker) THEN "hianime"
            ELSE IF Contains(a.link, InstagramMarker) THEN "instagram"
            ELSE "general")
      /\ (~Truthy(a.link) => log[p].ext.name = a.filename)

\* C7 witness: a link with both markers was run by the hianime extractor,
\* and an instagram-only link and a plain link were run as well.
C7_Witness ==
  /\ \E p \in Positions("run") :
       /\ Contains(log[p].ext.args.link, HianimeMarker)
       /\ Contains(log[p].ext.args.link, InstagramMarker)
       /\ log[p].ext.kind = "hianime"
  /\ \E p \in Positions("run") : log[p].ext.kind = "instagram"

\* position of the first occurrence of x in q
FirstAt(q, x) == CHOOSE k \in DOMAIN q : q[k] = x /\ \A m \in 1..(k - 1) : q[m] # x

\* out holds each item of in exactly once, nothing else, and in the order of
\* the first occurrences in in
IsFirstOccurrences(out, in) ==
  /\ \A x \in Range(in) : Cardinality({k \in DOMAIN out : out[k] = x}) = 1
  /\ Range(out) \subseteq Range(in)
  /\ \A a, b \in DOMAIN out :
       a < b => FirstAt(in, out[a]) < FirstAt(in, out[b])

\* the link entries, then the links file's lines without their surrounding
\* white space, less the blank ones and those starting with "#"
C8_Input ==
  args0.link \o
  (IF args0.links_file = NoneVal THEN <<>>
   ELSE SelectSeq([k \in 1..Len(fs.lines) |-> Strip(fs.lines[k])],
                  LAMBDA l : l # <<>> /\ l[1] # "#"))

Collected == pc # "build" /\ error # "FileNotFoundError"

\* C8 as stated: the collected list is always the first occurrences of the
\* link entries followed by the kept links-file lines.
C8_CollectIsFirstOccurrences ==
  Collected => IsFirstOccurrences(jobs, C8_Input)

\* C8 amended: the collected list is the first occurrences of the link
\* entries followed by the kept links-file lines, except that when there are
\* none of either and the base filename is non-empty it is that filename alone.
C8_CollectAmended ==
  Collected =>
    IF C8_Input = <<>> /\ args0.filename # <<>>
    THEN jobs = <<args0.filename>>
    ELSE IsFirstOccurrences(jobs, C8_Input)

\* C8 witness: a link entry is repeated by a line of the links file that
\* needs no stripping, and the collected list holds it once.
C8_Witness ==
  /\ Collected
  /\ Len(C8_Input) = 2
  /\ Len(args0.link) = 1
  /\ jobs = args0.link

\* where the part of the output that belongs to the job announced at p ends:
\* the next announcement, the total-time line, or the end of the output
JobEnd(p) ==
  LET later == {q \in (p + 1)..Len(log) : log[q].ev \in {"processing", "took"}}
  IN IF later = {} THEN Len(log) + 1
     ELSE CHOOSE q \in later : \A m \in later : q <= m

\* C9: every announced job gets exactly one "Done" line, carrying its own
\* index, as the last output before the next job is announced or the batch
\* ends, whatever the outcome; a failure is reported between the failing run
\* and that "Done" line; and no "Done" line belongs to no announced job.
C9_OneDonePerStartedJob ==
  /\ \A p \in Positions("processing") :
       LET end   == JobEnd(p)
           span  == (p + 1)..(end - 1)
           dones == {q \in span : log[q].ev = "done"}
           over  == end <= Len(log) \/ pc \in {"loop", "returned", "exited"}
       IN
       /\ Cardinality(dones) <= 1
       /\ \A d \in dones :
            /\ log[d].idx = log[p].idx /\ log[d].total = log[p].total
            /\ d = end - 1
            /\ \A f \in span :
                 (log[f].ev = "run" /\ log[f].msg # "ok") =>
                   \E r \in (f + 1)..(d - 1) : log[r].ev = "failed"
       /\ (over => Cardinality(dones) = 1)
  /\ \A d \in Positions("done") :
       \E p \in 1..(d - 1) : log[p].ev = "processing"

\* C9 witness: a job failed, the batch was aborted by it, and the output ends
\* with the failure report followed by the job's "Done" line.
C9_Witness ==
  /\ pc = "exited"
  /\ error = "boom"
  /\ Len(log) >= 3
  /\ log[Len(log)].ev = "done"
  /\ log[Len(log) - 1].ev = "failed"

\* C10: every failure report names the raw item whose extractor run failed
\* (for a pasted item, the pasted item) together with the error raised.
C10_FailureNamesFailingItem ==
  \A r \in Positions("failed") :
    \E f \in Failures :
      /\ f < r
      /\ \A q \in Failures : q < r => q <= f
      /\ log[r].msg = log[f].msg
      /\ log[r].item = log[f].ext.subject

\* C11: when a links-file path was given and the file does not exist, the
\* run ends with FileNotFoundError as its first and only step: nothing is
\* printed, no job list exists, no job is materialized or routed and no
\* extractor is built or run, whatever the link entries and continue-on-error.
C11_MissingFileFailsFirst ==
  (args0.links_file # NoneVal /\ ~fs.exists /\ pc # "build") =>
    /\ pc = "exited"
    /\ error = "FileNotFoundError"
    /\ log = <<>>
    /\ jobs = <<>> /\ idx = 0
    /\ stack = <<>> /\ ext = NoExtractor

\* C11 witness: two link entries and continue-on-error were given with a
\* missing links file, and the run has ended.
C11_Witness ==
  /\ args0.links_file # NoneVal /\ ~fs.exists
  /\ Len(args0.link) = 2
  /\ args0.continue_on_error
  /\ pc = "exited"

\* C12: when neither link entries nor links-file lines resolve and a base
\* filename is given, the run has exactly one job and every extractor run in
\* it is the hianime extractor on link None with the base filename as name.
C12_LegacyIsSearchTerm ==
  (Collected /\ C8_Input = <<>> /\ args0.filename # <<>>) =>
    /\ jobs = <<args0.filename>>
    /\ \A p \in Positions("run") :
         /\ log[p].ext.kind = "hianime"
         /\ log[p].ext.args.link = NoneVal
         /\ log[p].ext.args.filename = args0.filename
         /\ log[p].ext.name = args0.filename

\* the runs of extractors built for pasted items by the nested loop
NestedRuns == {p \in Positions("run") : log[p].depth > 0}

\* C13: the user is prompted only in runs whose collected list is empty.
C13_PromptOnlyOnEmptyList ==
  (Positions("banner") \cup Positions("prompt") # {}) => jobs = <<>>

\* C14: once the last of several pasted items has been run, no extractor is
\* run any more in the run.
C14_NestedBatchIsTerminal ==
  \A p \in NestedRuns :
    (log[p].idx = log[p].total /\ log[p].msg = "ok") =>
      \A q \in (p + 1)..Len(log) : log[q].ev # "run"

\* C15: with continue-on-error, when the run is over every item of a pasted
\* batch has been run, an earlier pasted item's failure notwithstanding, and
\* every pasted job's failure was reported under its own item.
C15_NestedBatchContinues ==
  (args.continue_on_error /\ pc = "exited") =>
    \A p \in NestedRuns :
      /\ \A k \in 1..log[p].total :
           \E q \in NestedRuns : log[q].idx = k
      /\ (log[p].msg # "ok" =>
            \E r \in (p + 1)..Len(log) :
              log[r].ev = "failed" /\ log[r].item = log[p].item)

\* C16: no pasted line is handed to an extractor more than once.
C16_PastedItemsDeduplicated ==
  \A p, q \in NestedRuns : p # q => log[p].item # log[q].item

\* C17: the step that ends a prompt with at most one pasted item hands the
\* batch loop this extractor: for a pasted URL, the one the ordered marker
\* rules select (hianime, else instagram, else general), on the job's
\* Namespace with the URL as link; for any other item, hianime with the item
\* as name; for no item, hianime with the empty name.
C17_SingleEntryRouting ==
  [][(pc = "call" /\ Len(stack) = 1 /\ stack[1].pc = "pasted"
        /\ Len(stack[1].items) <= 1) =>
       LET its == stack[1].items
           ans == IF its = <<>> THEN <<>> ELSE its[1]
       IN
       /\ pc' = "run"
       /\ IF RefIsUrl(ans)
          THEN /\ ext'.args = [stack[1].args EXCEPT !.link = ans]
               /\ ext'.kind =
                    (IF Contains(ans, HianimeMarker) THEN "hianime"
                     ELSE IF Contains(ans, InstagramMarker) THEN "instagram"
                     ELSE "general")
          ELSE /\ ext'.kind = "hianime"
               /\ ext'.name = ans
               /\ ext'.args = stack[1].args
       /\ (its = <<>> => ext'.kind = "hianime" /\ ext'.name = <<>>)]_vars

\* C17 witness: the one pasted item was an instagram URL and the job's
\* extractor is the instagram one with that URL as link.
C17_Witness ==
  /\ pc = "run"
  /\ item = <<>>
  /\ NestedRuns = {}
  /\ ext.kind = "instagram"
  /\ ext.args.link = S_insta

\* a prompt of this run has been given more than one item
NestedStarted ==
  \/ NestedRuns # {}
  \/ stack # <<>> /\ stack[1].pc \in {"nested_loop", "nested_wait", "nested_run"}

C19_JobConfigIsolation ==
  \A p \in Positions("run") :
    LET e   == log[p]
        a   == log[p].ext.args
        url == RefIsUrl(log[p].item)
    IN
    IF e.depth = 0 /\ e.item = <<>>
    THEN /\ a.filename = <<>>
         /\ a.link \in {NoneVal, e.ext.subject}
    ELSE IF url
    THEN /\ a.link = e.item
         /\ a.filename = (IF args0.filename # <<>> /\ e.total > 1
                          THEN args0.filename \o <<"_">> \o RefPad3(e.idx)
                          ELSE args0.filename)
    ELSE /\ a.link = NoneVal
         /\ a.filename = e.item

\* C19 witness: under base filename "x", job 1 was a URL run as "x_001" and
\* job 2, a URL too, was then run as "x_002".
C19_Witness ==
  \E p, q \in Positions("run") :
    /\ p < q
    /\ log[p].depth = 0 /\ log[q].depth = 0
    /\ log[p].ext.args.filename = <<"x", "_", "0", "0", "1">>
    /\ log[q].ext.args.filename = <<"x", "_", "0", "0", "2">>

\* C20: the prompt opens at most once in a run and only in the activation of
\* get_extractor the batch loop called: at most one job has the empty item,
\* there are never more than two activations, the second one is for a pasted
\* item, which is non-empty and has no surrounding white space, its Namespace
\* has a link or a filename, and it is routed without asking.
C20_PromptOnceNeverNested ==
  /\ Cardinality(Positions("banner")) <= 1
  /\ Cardinality({k \in DOMAIN jobs : jobs[k] = <<>>}) <= 1
  /\ Len(stack) <= 2
  /\ \A k \in DOMAIN stack :
       /\ stack[k].pc \in {"input", "pasted", "nested_loop", "nested_wait",
                           "nested_run"} => k = 1
       /\ \A m \in DOMAIN stack[k].items :
            stack[k].items[m] # <<>> /\ Strip(stack[k].items[m]) = stack[k].items[m]
  /\ Len(stack) = 2 =>
       /\ stack[2].pc = "entry"
       /\ stack[1].pc = "nested_wait"
       /\ Truthy(stack[2].args.link) \/ Truthy(stack[2].args.filename)

\* C20 witness: a pasted item's Namespace is about to be routed by a second
\* activation, after the one prompt of the run.
C20_Witness ==
  /\ Len(stack) = 2
  /\ Cardinality(Positions("banner")) = 1
  /\ stack[1].i = 2

====
